---- MODULE Spec2Model ----
(***************************************************************************)
(* GameShelf front end (src/frontend/src/App.js): the AuthProvider session *)
(* store, the AuthModal, the debounced GameSearch, the GameDetailsModal    *)
(* and the Collection view, as one state machine.                          *)
(*                                                                         *)
(* A step is one run of JavaScript to its next suspension point: an event  *)
(* handler up to its first await, or the continuation of an async function *)
(* when the awaited request settles, together with the React render and    *)
(* the effects that render commits.  Requests in flight are explicit.      *)
(* The HTTP authority (the backend) is not part of the sources; what it    *)
(* answers is modelled from section 6 of the specification.                *)
(***************************************************************************)
EXTENDS Naturals, Sequences, FiniteSets

\* ------------------------------------------------------------- bounds
MaxAuthCalls == 2   \* login/register/refreshProfile calls in flight
MaxSearchReqs == 2  \* search requests in flight
MaxTimers == 3      \* debounce timer handles alive at once (pending or still referenced)
MaxAddCalls == 1    \* collection add requests in flight
MaxListCalls == 2   \* collection list requests in flight
MaxRemoveCalls == 2 \* collection delete requests in flight
MaxItemId == 2      \* record ids the authority hands out

\* ------------------------------------------------------------- values
Null == "null"
Users == {"A", "B"}
TokenOf(u) == "t" \o u
Tokens == {TokenOf(u) : u \in Users}
Bearer(t) == <<"Bearer", t>>
NoHeader == <<>>
NoUser == <<>>
Games == {1, 2}

LoginFallback == "Login failed. Please check your credentials."
RegisterFallback == "Registration failed. Please try again."
SignInAlert == "Please sign in to add games to your collection."
DuplicateAlert == "This game is already in your collection!"
\* error.response?.data?.detail of a failed request: absent (no response, or
\* a body without detail), empty, or a reason given by the authority
Details == {Null, "", "Invalid username or password"}

VARIABLES
  \* AuthProvider
  stored,      \* localStorage['gameshelf_token'] (Null when absent)
  header,      \* axios.defaults.headers.common['Authorization']
  token,       \* useState token
  user,        \* useState user: NoUser or <<profile>>
  loading,     \* useState loading (the App loading gate)
  initPc,      \* initializeAuth: "start", "await" (profile request out), "done"
  initAuth,    \* Authorization header the initializeAuth profile request carries
  authCalls,   \* login / register / refreshProfile calls in flight, by slot
  \* AuthModal
  authModal,   \* App state {isOpen, mode}
  mLoading,    \* AuthModal loading
  mError,      \* AuthModal error
  \* GameSearch
  query, searchResults, searchLoading, searchTimeout, timers, searchReqs,
  \* App
  activeTab, selectedGame,
  \* GameDetailsModal
  dLoading, gameDetails, detailReqs, adding, addCalls, alertMsg, addError,
  \* Collection
  collection, cLoading, listCalls, removeCalls, filter, sortBy,
  \* the authority's collection store
  items, nextId,
  \* history, held by no variable of the program: how far the session
  \* operations since the last token write have gone along a successful login,
  \* Sign Out, a restart of the page and the initializeAuth of the new page;
  \* "off" in the specifications that do not ask for it
  trip

sessionVars == <<stored, header, token, user, loading, initPc, initAuth, authCalls, trip>>
modalVars == <<authModal, mLoading, mError>>
searchVars == <<query, searchResults, searchLoading, searchTimeout, timers, searchReqs>>
appVars == <<activeTab, selectedGame>>
detailVars == <<dLoading, gameDetails, detailReqs, adding, addCalls, alertMsg, addError>>
collVars == <<collection, cLoading, listCalls, removeCalls, filter, sortBy>>
serverVars == <<items, nextId>>
vars == <<sessionVars, modalVars, searchVars, appVars, detailVars, collVars, serverVars>>

\* ------------------------------------------------------------- the authority
\* The user a bearer header authenticates, or Null.
AuthUser(h) ==
  IF \E u \in Users : h = Bearer(TokenOf(u))
  THEN CHOOSE u \in Users : h = Bearer(TokenOf(u))
  ELSE Null

OwnedBy(u, wl) == {it \in items : it.owner = u /\ it.is_wishlist = wl}

\* GET /auth/profile for user u
ProfileOf(u) ==
  [username |-> u,
   collection_count |-> Cardinality(OwnedBy(u, FALSE)),
   wishlist_count |-> Cardinality(OwnedBy(u, TRUE))]

\* ------------------------------------------------------------- helpers
Min(S) == CHOOSE i \in S : \A j \in S : i <= j

\* a catch that returns its own message whatever the error carries
AlwaysFallback(d, fallback) == fallback

\* `a || fallback' on an error detail: JavaScript takes the fallback for
\* undefined, null and the empty string.
OrFallback(d, fallback) == IF d = Null \/ d = "" THEN fallback ELSE d

FallbackOf(op) == IF op = "register" THEN RegisterFallback ELSE LoginFallback

\* The history of a logout that overtakes session calls: "raced" from a
\* logout invoked while a login, register or refreshProfile call is out, until
\* the next login or register is invoked.
RaceMarks == {"watch", "raced", "released"}
Race(ev) ==
  CASE trip = "watch" /\ ev = "logout" /\ (\E i \in 1..MaxAuthCalls : authCalls[i].op # "idle") -> "raced"
    [] trip = "raced" /\ ev = "submit" -> "released"
    [] OTHER -> trip

\* The history after a session operation: a token written by anything but
\* the login that has just succeeded starts it over.
Trip(ev) ==
  CASE trip = "off" -> "off"
    [] trip \in RaceMarks -> Race(ev)
    [] ev = "submit" -> trip
    [] ev = "login" -> "login"
    [] ev = "logout" /\ trip = "login" -> "logout"
    [] ev = "restart" /\ trip = "logout" -> "restart"
    [] ev = "initialize" /\ trip = "restart" -> "initialize"
    [] OTHER -> "none"

\* The four places the session lives in.
Session == [stored |-> stored, header |-> header, token |-> token, user |-> user]

\* A call in flight: op, the request it awaits, the account of its form, the
\* Authorization header its profile request carries, and (history, held by no
\* variable of the program) whether a step of this call has changed the session.
IdleCall == [op |-> "idle", stage |-> "", cred |-> Null, auth |-> NoHeader, dirty |-> FALSE]
FreeAuth == {i \in 1..MaxAuthCalls : authCalls[i].op = "idle"}

IdleList == [st |-> "idle", auth |-> NoHeader, wl |-> FALSE, ok |-> FALSE, data |-> <<>>]
FreeList == {i \in 1..MaxListCalls : listCalls[i].st = "idle"}

\* ------------------------------------------------------------- Collection effect
\* Collection is mounted on its two tabs (behind the App loading gate).
CollectionMounted == activeTab # "search"

\* fetchCollection up to its await: setLoading(true) and the GET, which
\* carries the Authorization header axios holds when it is issued.
IssueListOn(calls, h, wl) ==
  LET free == {i \in 1..MaxListCalls : calls[i].st = "idle"} IN
  [calls EXCEPT ![Min(free)] = [st |-> "sent", auth |-> h, wl |-> wl, ok |-> FALSE, data |-> <<>>]]

IssueList(h) == IssueListOn(listCalls, h, activeTab = "wishlist")

\* useEffect(..., [isWishlist, user]) of a mounted Collection after a step
\* that set user to u2 with the header left at h2.  setUser(object) is always
\* a new identity; setUser(null) on null changes nothing.
UserEffect(u2, h2) ==
  IF (~CollectionMounted) \/ (u2 = NoUser /\ user = NoUser)
  THEN UNCHANGED collVars
  ELSE IF u2 # NoUser
       THEN /\ FreeList # {}
            /\ cLoading' = TRUE
            /\ listCalls' = IssueList(h2)
            /\ UNCHANGED <<collection, removeCalls, filter, sortBy>>
       ELSE /\ cLoading' = FALSE
            /\ UNCHANGED <<collection, listCalls, removeCalls, filter, sortBy>>

\* ------------------------------------------------------------- AuthProvider
\* initializeAuth that asks for the profile whatever the slot holds
InitializeAuthAlwaysFetch ==
  /\ initPc = "start"
  /\ header' = Bearer(stored)
  /\ token' = stored
  /\ initAuth' = Bearer(stored)
  /\ initPc' = "await"
  /\ UNCHANGED <<stored, user, loading, trip>>
  /\ UNCHANGED <<authCalls, modalVars, searchVars, appVars, detailVars, collVars, serverVars>>

\* initializeAuth up to its await (or to its end when nothing is stored)
InitializeAuth ==
  /\ initPc = "start"
  /\ IF stored # Null
     THEN /\ header' = Bearer(stored)
          /\ token' = stored
          /\ initAuth' = Bearer(stored)
          /\ initPc' = "await"
          /\ UNCHANGED <<stored, user, loading, trip>>
     ELSE /\ loading' = FALSE
          /\ initPc' = "done"
          /\ UNCHANGED <<stored, header, token, user, initAuth>>
          /\ trip' = Trip("initialize")
  /\ UNCHANGED <<authCalls, modalVars, searchVars, appVars, detailVars, collVars, serverVars>>

\* initializeAuth: the profile request succeeded
InitProfileOk ==
  /\ initPc = "await"
  /\ AuthUser(initAuth) # Null
  /\ user' = <<ProfileOf(AuthUser(initAuth))>>
  /\ loading' = FALSE
  /\ initPc' = "done"
  /\ UNCHANGED <<stored, header, token, initAuth, authCalls>>
  /\ trip' = Trip("write")
  /\ UNCHANGED <<modalVars, searchVars, appVars, detailVars, collVars, serverVars>>

\* initializeAuth whose catch leaves localStorage alone
InitProfileFailKeepsSlot ==
  /\ initPc = "await"
  /\ header' = NoHeader
  /\ token' = Null
  /\ user' = NoUser
  /\ loading' = FALSE
  /\ initPc' = "done"
  /\ UNCHANGED <<stored, initAuth, authCalls>>
  /\ trip' = Trip("write")
  /\ UNCHANGED <<modalVars, searchVars, appVars, detailVars, collVars, serverVars>>
\* the mutant of InitProfileFail: the catch returns before setLoading(false)
InitProfileFailStaysLoading ==
  /\ initPc = "await"
  /\ stored' = Null
  /\ header' = NoHeader
  /\ token' = Null
  /\ user' = NoUser
  /\ initPc' = "done"
  /\ UNCHANGED <<loading, initAuth, authCalls>>
  /\ trip' = Trip("write")
  /\ UNCHANGED <<modalVars, searchVars, appVars, detailVars, collVars, serverVars>>

\* initializeAuth: the profile request failed (catch)
InitProfileFail ==
  /\ initPc = "await"
  /\ stored' = Null
  /\ header' = NoHeader
  /\ token' = Null
  /\ user' = NoUser
  /\ loading' = FALSE
  /\ initPc' = "done"
  /\ UNCHANGED <<initAuth, authCalls>>
  /\ trip' = Trip("write")
  /\ UNCHANGED <<modalVars, searchVars, appVars, detailVars, collVars, serverVars>>

\* login / register that fetch the profile before they attach the header
ExchangeOkHeaderLate(i) ==
  /\ authCalls[i].op \in {"login", "register"}
  /\ authCalls[i].stage = "exchange"
  /\ LET t == TokenOf(authCalls[i].cred) IN
       /\ stored' = t
       /\ token' = t
       /\ header' = header
       /\ authCalls' = [authCalls EXCEPT ![i].stage = "profile", ![i].auth = header,
                            ![i].dirty = (stored # t \/ token # t)]
  /\ UNCHANGED <<user, loading, initPc, initAuth>>
  /\ trip' = Trip("write")
  /\ UNCHANGED <<modalVars, searchVars, appVars, detailVars, collVars, serverVars>>

\* login / register: the credential exchange succeeded; the token is stored,
\* held and attached, and the profile request goes out under it
ExchangeOk(i) ==
  /\ authCalls[i].op \in {"login", "register"}
  /\ authCalls[i].stage = "exchange"
  /\ LET t == TokenOf(authCalls[i].cred) IN
       /\ stored' = t
       /\ token' = t
       /\ header' = Bearer(t)
       /\ authCalls' = [authCalls EXCEPT ![i].stage = "profile", ![i].auth = Bearer(t),
                            ![i].dirty = (stored # t \/ token # t \/ header # Bearer(t))]
  /\ UNCHANGED <<user, loading, initPc, initAuth>>
  /\ trip' = Trip("write")
  /\ UNCHANGED <<modalVars, searchVars, appVars, detailVars, collVars, serverVars>>

\* login / register return {success: false, error}; handleSubmit shows it
ReturnFailure(i, d) ==
  /\ mError' = OrFallback(d, FallbackOf(authCalls[i].op))
  /\ mLoading' = FALSE
  /\ authCalls' = [authCalls EXCEPT ![i] = IdleCall]
  /\ UNCHANGED authModal

\* login / register: the credential exchange failed (catch)
ExchangeFail(i, d) ==
  /\ authCalls[i].op \in {"login", "register"}
  /\ authCalls[i].stage = "exchange"
  /\ ReturnFailure(i, d)
  /\ UNCHANGED <<stored, header, token, user, loading, initPc, initAuth, trip>>
  /\ UNCHANGED <<searchVars, appVars, detailVars, collVars, serverVars>>

\* login / register: the profile request succeeded; {success: true} closes
\* the modal with the closeAuthModal of the render that submitted
LoginProfileOk(i) ==
  /\ authCalls[i].op \in {"login", "register"}
  /\ authCalls[i].stage = "profile"
  /\ AuthUser(authCalls[i].auth) # Null
  /\ user' = <<ProfileOf(AuthUser(authCalls[i].auth))>>
  /\ authModal' = [isOpen |-> FALSE, mode |-> authCalls[i].op]
  /\ mLoading' = FALSE
  /\ authCalls' = [authCalls EXCEPT ![i] = IdleCall]
  /\ UserEffect(user', header)
  /\ UNCHANGED <<stored, header, token, loading, initPc, initAuth, mError>>
  /\ trip' = Trip("login")
  /\ UNCHANGED <<searchVars, appVars, detailVars, serverVars>>

\* login / register: the profile request failed (the same catch)
LoginProfileFail(i, d) ==
  /\ authCalls[i].op \in {"login", "register"}
  /\ authCalls[i].stage = "profile"
  /\ ReturnFailure(i, d)
  /\ UNCHANGED <<stored, header, token, user, loading, initPc, initAuth, trip>>
  /\ UNCHANGED <<searchVars, appVars, detailVars, collVars, serverVars>>

\* logout() without the delete of the Authorization header
ClearSessionKeepsHeader ==
  /\ stored' = Null
  /\ token' = Null
  /\ user' = NoUser
  /\ header' = header

\* logout() without localStorage.removeItem
ClearSessionKeepsSlot ==
  /\ stored' = stored
  /\ token' = Null
  /\ user' = NoUser
  /\ header' = NoHeader

\* logout(): the four assignments
ClearSession ==
  /\ stored' = Null
  /\ token' = Null
  /\ user' = NoUser
  /\ header' = NoHeader

\* Sign Out in the UserMenu, which is rendered while a user is held
Logout ==
  /\ ~loading
  /\ user # NoUser
  /\ ClearSession
  /\ UserEffect(NoUser, NoHeader)
  /\ UNCHANGED <<loading, initPc, initAuth, authCalls>>
  /\ trip' = Trip("logout")
  /\ UNCHANGED <<modalVars, searchVars, appVars, detailVars, serverVars>>

\* refreshProfile() up to its await; no component of App.js calls it, so it
\* is invoked by a consumer of the context at any time after mount
\* (a caller that holds the function of the current render: `token' is read
\* from that render)
RefreshProfile ==
  /\ initPc # "start"
  /\ token # Null
  /\ FreeAuth # {}
  /\ authCalls' = [authCalls EXCEPT ![Min(FreeAuth)] =
        [op |-> "refresh", stage |-> "profile", cred |-> Null, auth |-> header, dirty |-> FALSE]]
  /\ UNCHANGED <<stored, header, token, user, loading, initPc, initAuth, trip>>
  /\ UNCHANGED <<modalVars, searchVars, appVars, detailVars, collVars, serverVars>>

\* refreshProfile: the profile request succeeded
RefreshOk(i) ==
  /\ authCalls[i].op = "refresh"
  /\ AuthUser(authCalls[i].auth) # Null
  /\ user' = <<ProfileOf(AuthUser(authCalls[i].auth))>>
  /\ authCalls' = [authCalls EXCEPT ![i] = IdleCall]
  /\ UserEffect(user', header)
  /\ UNCHANGED <<stored, header, token, loading, initPc, initAuth, trip>>
  /\ UNCHANGED <<modalVars, searchVars, appVars, detailVars, serverVars>>

\* refreshProfile whose catch only logs
RefreshFailNoLogout(i) ==
  /\ authCalls[i].op = "refresh"
  /\ authCalls' = [authCalls EXCEPT ![i] = IdleCall]
  /\ UNCHANGED <<stored, header, token, user, loading, initPc, initAuth, trip>>
  /\ UNCHANGED <<modalVars, searchVars, appVars, detailVars, collVars, serverVars>>

\* refreshProfile: the profile request failed; catch calls logout()
RefreshFail(i) ==
  /\ authCalls[i].op = "refresh"
  /\ ClearSession
  /\ authCalls' = [authCalls EXCEPT ![i] = IdleCall]
  /\ UserEffect(NoUser, NoHeader)
  /\ UNCHANGED <<loading, initPc, initAuth>>
  /\ trip' = Trip("write")
  /\ UNCHANGED <<modalVars, searchVars, appVars, detailVars, serverVars>>

\* ------------------------------------------------------------- AuthModal
\* useEffect(..., [isOpen, mode]) after authModal became m2
ModalEffect(m2) ==
  IF m2.isOpen /\ (m2.isOpen # authModal.isOpen \/ m2.mode # authModal.mode)
  THEN mError' = "" /\ mLoading' = FALSE
  ELSE UNCHANGED <<mError, mLoading>>

\* Sign In / Sign Up, rendered while no user is held
OpenAuthModal(m) ==
  /\ ~loading
  /\ user = NoUser
  /\ authModal' = [isOpen |-> TRUE, mode |-> m]
  /\ ModalEffect(authModal')
  /\ UNCHANGED <<sessionVars, searchVars, appVars, detailVars, collVars, serverVars>>

\* the close button or the overlay
CloseAuthModal ==
  /\ authModal.isOpen
  /\ authModal' = [authModal EXCEPT !.isOpen = FALSE]
  /\ ModalEffect(authModal')
  /\ UNCHANGED <<sessionVars, searchVars, appVars, detailVars, collVars, serverVars>>

\* "Don't have an account? Sign up" (disabled while loading)
SwitchAuthMode ==
  /\ authModal.isOpen
  /\ ~mLoading
  /\ authModal' = [authModal EXCEPT !.mode = IF authModal.mode = "login" THEN "register" ELSE "login"]
  /\ ModalEffect(authModal')
  /\ UNCHANGED <<sessionVars, searchVars, appVars, detailVars, collVars, serverVars>>

\* handleSubmit up to the await inside login / register: the POST goes out
HandleSubmit(u) ==
  /\ authModal.isOpen
  /\ ~mLoading
  /\ FreeAuth # {}
  /\ mLoading' = TRUE
  /\ mError' = ""
  /\ authCalls' = [authCalls EXCEPT ![Min(FreeAuth)] =
        [op |-> authModal.mode, stage |-> "exchange", cred |-> u, auth |-> NoHeader, dirty |-> FALSE]]
  /\ trip' = Trip("submit")
  /\ UNCHANGED <<stored, header, token, user, loading, initPc, initAuth, authModal>>
  /\ UNCHANGED <<searchVars, appVars, detailVars, collVars, serverVars>>

\* ------------------------------------------------------------- GameSearch
\* GET /search?q=... of the external catalogue: game 1 is "Catan", game 2 is
\* "Cat Lady"; the entries are named by their bgg_id, in catalogue order.
Catalog(q) ==
  CASE q = "cat" -> <<1, 2>>
    [] q = "catan" -> <<1>>
    [] OTHER -> <<>>

NoTimer == 0
IdleSearch == [st |-> "idle", q |-> "", live |-> FALSE]
FreeSearch == {i \in 1..MaxSearchReqs : searchReqs[i].st = "idle"}
\* a handle setTimeout can return: not pending, and not the one still held
FreeTimers == {k \in 1..MaxTimers : k # searchTimeout /\ \A t \in timers : t.id # k}

\* handleInputChange without its clearTimeout
HandleInputChangeNoClear(v) ==
  /\ ~loading
  /\ activeTab = "search"
  /\ FreeTimers # {}
  /\ query' = v
  /\ timers' = timers \cup {[id |-> Min(FreeTimers), value |-> v, live |-> TRUE]}
  /\ searchTimeout' = Min(FreeTimers)
  /\ UNCHANGED <<searchResults, searchLoading, searchReqs>>
  /\ UNCHANGED <<sessionVars, modalVars, appVars, detailVars, collVars, serverVars>>

\* handleInputChange: clearTimeout on the held handle, then setTimeout
HandleInputChange(v) ==
  /\ ~loading
  /\ activeTab = "search"
  /\ FreeTimers # {}
  /\ query' = v
  /\ LET kept == {t \in timers : t.id # searchTimeout}
         k == Min(FreeTimers)
     IN /\ timers' = kept \cup {[id |-> k, value |-> v, live |-> TRUE]}
        /\ searchTimeout' = k
  /\ UNCHANGED <<searchResults, searchLoading, searchReqs>>
  /\ UNCHANGED <<sessionVars, modalVars, appVars, detailVars, collVars, serverVars>>

\* searchGames with the floor at one character
SearchGamesFloorOne(value, live) ==
  IF Len(value) < 1
  THEN /\ searchResults' = IF live THEN <<>> ELSE searchResults
       /\ UNCHANGED <<searchLoading, searchReqs>>
  ELSE /\ FreeSearch # {}
       /\ searchLoading' = IF live THEN TRUE ELSE searchLoading
       /\ searchReqs' = [searchReqs EXCEPT ![Min(FreeSearch)] =
                           [st |-> "sent", q |-> value, live |-> live]]
       /\ UNCHANGED searchResults

\* searchGames(value) up to its await, run by a timer that fires; a timer of
\* an unmounted GameSearch still runs it, and its setState calls do nothing
SearchGames(value, live) ==
  IF Len(value) < 2
  THEN /\ searchResults' = IF live THEN <<>> ELSE searchResults
       /\ UNCHANGED <<searchLoading, searchReqs>>
  ELSE /\ FreeSearch # {}
       /\ searchLoading' = IF live THEN TRUE ELSE searchLoading
       /\ searchReqs' = [searchReqs EXCEPT ![Min(FreeSearch)] =
                           [st |-> "sent", q |-> value, live |-> live]]
       /\ UNCHANGED searchResults

\* the 300 ms of a pending timer have passed
TimerFire(t) ==
  /\ t \in timers
  /\ timers' = timers \ {t}
  /\ SearchGames(t.value, t.live)
  /\ UNCHANGED <<query, searchTimeout>>
  /\ UNCHANGED <<sessionVars, modalVars, appVars, detailVars, collVars, serverVars>>

\* searchGames: the request succeeded
SearchOk(i) ==
  /\ searchReqs[i].st = "sent"
  /\ searchReqs' = [searchReqs EXCEPT ![i] = IdleSearch]
  /\ IF searchReqs[i].live
     THEN searchResults' = Catalog(searchReqs[i].q) /\ searchLoading' = FALSE
     ELSE UNCHANGED <<searchResults, searchLoading>>
  /\ UNCHANGED <<query, searchTimeout, timers>>
  /\ UNCHANGED <<sessionVars, modalVars, appVars, detailVars, collVars, serverVars>>

\* searchGames whose catch only logs
SearchFailKeepsResults(i) ==
  /\ searchReqs[i].st = "sent"
  /\ searchReqs' = [searchReqs EXCEPT ![i] = IdleSearch]
  /\ searchLoading' = IF searchReqs[i].live THEN FALSE ELSE searchLoading
  /\ UNCHANGED <<query, searchResults, searchTimeout, timers>>
  /\ UNCHANGED <<sessionVars, modalVars, appVars, detailVars, collVars, serverVars>>

\* searchGames: the request failed (catch)
SearchFail(i) ==
  /\ searchReqs[i].st = "sent"
  /\ searchReqs' = [searchReqs EXCEPT ![i] = IdleSearch]
  /\ IF searchReqs[i].live
     THEN searchResults' = <<>> /\ searchLoading' = FALSE
     ELSE UNCHANGED <<searchResults, searchLoading>>
  /\ UNCHANGED <<query, searchTimeout, timers>>
  /\ UNCHANGED <<sessionVars, modalVars, appVars, detailVars, collVars, serverVars>>

\* ------------------------------------------------------------- App
NoGame == 0
NoDetails == <<>>
IdleAdd == [st |-> "idle", bgg_id |-> NoGame, wl |-> FALSE, auth |-> NoHeader, live |-> FALSE]
FreeAdd == {i \in 1..MaxAddCalls : addCalls[i].st = "idle"}
IdleRemove == [st |-> "idle", id |-> 0, auth |-> NoHeader, live |-> FALSE]
FreeRemove == {i \in 1..MaxRemoveCalls : removeCalls[i].st = "idle"}

\* GameSearch unmounts: its state is gone, its timers and requests live on
UnmountSearch ==
  /\ query' = ""
  /\ searchResults' = <<>>
  /\ searchLoading' = FALSE
  /\ searchTimeout' = NoTimer
  /\ timers' = {[t EXCEPT !.live = FALSE] : t \in timers}
  /\ searchReqs' = [i \in 1..MaxSearchReqs |->
                      IF searchReqs[i].st = "idle" THEN IdleSearch
                      ELSE [searchReqs[i] EXCEPT !.live = FALSE]]

\* a tab bar that is rendered, and usable, above the loading gate
SetActiveTabUngated(t) ==
  /\ t # activeTab
  /\ activeTab' = t
  /\ IF activeTab = "search" THEN UnmountSearch ELSE UNCHANGED searchVars
  /\ filter' = ""
  /\ sortBy' = "date_added"
  /\ removeCalls' = [i \in 1..MaxRemoveCalls |->
                       IF removeCalls[i].st = "idle" THEN IdleRemove
                       ELSE [removeCalls[i] EXCEPT !.live = FALSE]]
  /\ collection' = <<>>
  /\ LET none == [i \in 1..MaxListCalls |-> IdleList] IN
     IF t # "search" /\ user # NoUser
     THEN cLoading' = TRUE /\ listCalls' = IssueListOn(none, header, t = "wishlist")
     ELSE cLoading' = (t = "search") /\ listCalls' = none
  /\ UNCHANGED <<selectedGame, sessionVars, modalVars, detailVars, serverVars>>

\* a tab button: Collection of the tab left unmounts (the answers to its list
\* requests go nowhere, its delete requests still reach the authority), the
\* component of the tab entered mounts with fresh state and runs its effect
SetActiveTab(t) ==
  /\ ~loading
  /\ t # activeTab
  /\ activeTab' = t
  /\ IF activeTab = "search" THEN UnmountSearch ELSE UNCHANGED searchVars
  /\ filter' = ""
  /\ sortBy' = "date_added"
  /\ removeCalls' = [i \in 1..MaxRemoveCalls |->
                       IF removeCalls[i].st = "idle" THEN IdleRemove
                       ELSE [removeCalls[i] EXCEPT !.live = FALSE]]
  /\ collection' = <<>>
  /\ LET none == [i \in 1..MaxListCalls |-> IdleList] IN
     IF t # "search" /\ user # NoUser
     THEN cLoading' = TRUE /\ listCalls' = IssueListOn(none, header, t = "wishlist")
     ELSE cLoading' = (t = "search") /\ listCalls' = none
  /\ UNCHANGED <<selectedGame, sessionVars, modalVars, detailVars, serverVars>>

\* ------------------------------------------------------------- GameDetailsModal
\* GET /games/{id} of the external catalogue
Detail(g) == [bgg_id |-> g, name |-> IF g = 1 THEN "Catan" ELSE "Cat Lady"]

\* a search result is clicked: handleGameSelect; a modal that mounts starts
\* loading, and useEffect(..., [game.bgg_id]) issues fetchGameDetails
HandleGameSelect(g) ==
  /\ ~loading
  /\ activeTab = "search"
  /\ \E k \in 1..Len(searchResults) : searchResults[k] = g
  /\ g # selectedGame
  /\ g \notin detailReqs
  /\ selectedGame' = g
  /\ detailReqs' = detailReqs \cup {g}
  /\ IF selectedGame = NoGame
     THEN dLoading' = TRUE /\ gameDetails' = NoDetails /\ adding' = FALSE
     ELSE UNCHANGED <<dLoading, gameDetails, adding>>
  /\ UNCHANGED <<activeTab, addCalls, alertMsg, addError>>
  /\ UNCHANGED <<sessionVars, modalVars, searchVars, collVars, serverVars>>

\* the modal unmounts: its state is gone, answers to its detail requests go
\* nowhere, an add request in flight still completes
UnmountDetails ==
  /\ dLoading' = TRUE
  /\ gameDetails' = NoDetails
  /\ adding' = FALSE
  /\ detailReqs' = {}

OrphanAdds == [i \in 1..MaxAddCalls |->
                 IF addCalls[i].st = "idle" THEN IdleAdd ELSE [addCalls[i] EXCEPT !.live = FALSE]]

\* the modal's close button
CloseDetails ==
  /\ selectedGame # NoGame
  /\ selectedGame' = NoGame
  /\ UnmountDetails
  /\ addCalls' = OrphanAdds
  /\ UNCHANGED <<activeTab, alertMsg, addError>>
  /\ UNCHANGED <<sessionVars, modalVars, searchVars, collVars, serverVars>>

\* fetchGameDetails: the request succeeded
DetailOk(g) ==
  /\ g \in detailReqs
  /\ detailReqs' = detailReqs \ {g}
  /\ gameDetails' = <<Detail(g)>>
  /\ dLoading' = FALSE
  /\ UNCHANGED <<adding, addCalls, alertMsg, addError>>
  /\ UNCHANGED <<sessionVars, modalVars, searchVars, appVars, collVars, serverVars>>

\* fetchGameDetails: the request failed (catch logs, finally ends loading)
DetailFail(g) ==
  /\ g \in detailReqs
  /\ detailReqs' = detailReqs \ {g}
  /\ dLoading' = FALSE
  /\ UNCHANGED <<gameDetails, adding, addCalls, alertMsg, addError>>
  /\ UNCHANGED <<sessionVars, modalVars, searchVars, appVars, collVars, serverVars>>

\* a fetchCounts that keeps the count of the profile itself
FetchCountsLocally ==
  /\ user' = IF user = NoUser THEN NoUser
             ELSE <<[user[1] EXCEPT !.collection_count = user[1].collection_count + 1]>>
  /\ UNCHANGED <<stored, header, token, loading, initPc, initAuth, authCalls, trip, collVars>>

\* how GET /games/{id} fails: 404 for an entry the catalogue no longer has, or
\* no usable answer
DetailErrors == {"notfound", "transport"}

\* fetchGameDetails: the request failed with error e; the catch logs e and
\* looks at it no further
DetailFailed(g, e) ==
  /\ e \in DetailErrors
  /\ DetailFail(g)

\* App.fetchCounts: an empty function body
FetchCounts == UNCHANGED <<sessionVars, collVars>>

\* handleAddToCollection without its check of user
HandleAddToCollectionUnchecked(wl) ==
  /\ selectedGame # NoGame
  /\ ~dLoading
  /\ ~adding
  /\ FreeAdd # {}
  /\ adding' = TRUE
  /\ addCalls' = [addCalls EXCEPT ![Min(FreeAdd)] =
        [st |-> "sent", bgg_id |-> selectedGame, wl |-> wl, auth |-> header, live |-> TRUE]]
  /\ UNCHANGED <<alertMsg, dLoading, gameDetails, detailReqs, addError>>
  /\ UNCHANGED <<sessionVars, modalVars, searchVars, appVars, collVars, serverVars>>

\* handleAddToCollection up to its await
HandleAddToCollection(wl) ==
  /\ selectedGame # NoGame
  /\ ~dLoading
  /\ ~adding
  /\ IF user = NoUser
     THEN /\ alertMsg' = SignInAlert
          /\ UNCHANGED <<adding, addCalls>>
     ELSE /\ FreeAdd # {}
          /\ adding' = TRUE
          /\ addCalls' = [addCalls EXCEPT ![Min(FreeAdd)] =
                [st |-> "sent", bgg_id |-> selectedGame, wl |-> wl, auth |-> header, live |-> TRUE]]
          /\ UNCHANGED alertMsg
  /\ UNCHANGED <<dLoading, gameDetails, detailReqs, addError>>
  /\ UNCHANGED <<sessionVars, modalVars, searchVars, appVars, collVars, serverVars>>

\* POST /collection at the authority: the pair (bgg_id, is_wishlist) is
\* unique per user
IsDuplicate(c) ==
  \E it \in items : it.owner = AuthUser(c.auth) /\ it.bgg_id = c.bgg_id /\ it.is_wishlist = c.wl

\* a POST /collection that is accepted whatever the authority already holds
AddOkAcceptsDuplicate(i) ==
  /\ addCalls[i].st = "sent"
  /\ AuthUser(addCalls[i].auth) # Null
  /\ nextId <= MaxItemId
  /\ items' = items \cup {[id |-> nextId, owner |-> AuthUser(addCalls[i].auth),
                           bgg_id |-> addCalls[i].bgg_id, is_wishlist |-> addCalls[i].wl,
                           custom_tags |-> <<>>]}
  /\ nextId' = nextId + 1
  /\ FetchCounts
  /\ selectedGame' = NoGame
  /\ UnmountDetails
  /\ addCalls' = [OrphanAdds EXCEPT ![i] = IdleAdd]
  /\ UNCHANGED <<activeTab, alertMsg, addError>>
  /\ UNCHANGED <<modalVars, searchVars>>

\* handleAddToCollection: the POST succeeded: onAddToCollection(), onClose()
AddOk(i) ==
  /\ addCalls[i].st = "sent"
  /\ AuthUser(addCalls[i].auth) # Null
  /\ ~IsDuplicate(addCalls[i])
  /\ nextId <= MaxItemId
  /\ items' = items \cup {[id |-> nextId, owner |-> AuthUser(addCalls[i].auth),
                           bgg_id |-> addCalls[i].bgg_id, is_wishlist |-> addCalls[i].wl,
                           custom_tags |-> <<>>]}
  /\ nextId' = nextId + 1
  /\ FetchCounts
  /\ selectedGame' = NoGame
  /\ UnmountDetails
  /\ addCalls' = [OrphanAdds EXCEPT ![i] = IdleAdd]
  /\ UNCHANGED <<activeTab, alertMsg, addError>>
  /\ UNCHANGED <<modalVars, searchVars>>

\* what the catch of handleAddToCollection does with the error it caught
AddCatch(e) ==
  /\ addError' = e
  /\ alertMsg' = DuplicateAlert

\* handleAddToCollection: the POST failed: 409 for a duplicate, 401 without
\* a valid bearer token, or no answer at all
AddFail(i, e) ==
  /\ addCalls[i].st = "sent"
  /\ e = "duplicate" => IsDuplicate(addCalls[i])
  /\ e = "unauthorized" => AuthUser(addCalls[i].auth) = Null
  /\ AddCatch(e)
  /\ adding' = IF addCalls[i].live THEN FALSE ELSE adding
  /\ addCalls' = [addCalls EXCEPT ![i] = IdleAdd]
  /\ UNCHANGED <<dLoading, gameDetails, detailReqs>>
  /\ UNCHANGED <<sessionVars, modalVars, searchVars, appVars, collVars, serverVars>>

\* ------------------------------------------------------------- Collection
\* the items of a set as the authority lists them: in insertion (id) order
RECURSIVE SeqOf(_)
SeqOf(S) ==
  IF S = {} THEN <<>>
  ELSE LET first == CHOOSE it \in S : \A o \in S : it.id <= o.id
       IN <<first>> \o SeqOf(S \ {first})

\* GET /collection?is_wishlist=... is answered by the authority
ListServe(i) ==
  /\ listCalls[i].st = "sent"
  /\ AuthUser(listCalls[i].auth) # Null
  /\ listCalls' = [listCalls EXCEPT ![i].st = "answered", ![i].ok = TRUE,
                     ![i].data = SeqOf(OwnedBy(AuthUser(listCalls[i].auth), listCalls[i].wl))]
  /\ UNCHANGED <<collection, cLoading, removeCalls, filter, sortBy>>
  /\ UNCHANGED <<sessionVars, modalVars, searchVars, appVars, detailVars, serverVars>>

\* fetchCollection: the answer arrives
ListDeliver(i) ==
  /\ listCalls[i].st = "answered"
  /\ collection' = listCalls[i].data
  /\ cLoading' = FALSE
  /\ listCalls' = [listCalls EXCEPT ![i] = IdleList]
  /\ UNCHANGED <<removeCalls, filter, sortBy>>
  /\ UNCHANGED <<sessionVars, modalVars, searchVars, appVars, detailVars, serverVars>>

\* the mutant of ListFail: a catch that clears the list as searchGames does
ListFailClears(i) ==
  /\ listCalls[i].st = "sent"
  /\ collection' = <<>>
  /\ cLoading' = FALSE
  /\ listCalls' = [listCalls EXCEPT ![i] = IdleList]
  /\ UNCHANGED <<removeCalls, filter, sortBy>>
  /\ UNCHANGED <<sessionVars, modalVars, searchVars, appVars, detailVars, serverVars>>

\* fetchCollection: the request failed (catch logs, finally ends loading)
ListFail(i) ==
  /\ listCalls[i].st = "sent"
  /\ cLoading' = FALSE
  /\ listCalls' = [listCalls EXCEPT ![i] = IdleList]
  /\ UNCHANGED <<collection, removeCalls, filter, sortBy>>
  /\ UNCHANGED <<sessionVars, modalVars, searchVars, appVars, detailVars, serverVars>>

\* the Remove button of a listed item: removeFromCollection up to its await
RemoveFromCollection(id) ==
  /\ CollectionMounted
  /\ user # NoUser
  /\ ~cLoading
  /\ \E k \in 1..Len(collection) : collection[k].id = id
  /\ FreeRemove # {}
  /\ removeCalls' = [removeCalls EXCEPT ![Min(FreeRemove)] =
                       [st |-> "sent", id |-> id, auth |-> header, live |-> TRUE]]
  /\ UNCHANGED <<collection, cLoading, listCalls, filter, sortBy>>
  /\ UNCHANGED <<sessionVars, modalVars, searchVars, appVars, detailVars, serverVars>>

\* DELETE /collection/{id} at the authority: 204, whether or not the record
\* is (still) there
DeleteItem(u, id) == items' = {it \in items : ~(it.id = id /\ it.owner = u)}

\* removeFromCollection without its fetchCollection()
RemoveOkNoRelist(i) ==
  /\ removeCalls[i].st = "sent"
  /\ AuthUser(removeCalls[i].auth) # Null
  /\ DeleteItem(AuthUser(removeCalls[i].auth), removeCalls[i].id)
  /\ removeCalls' = [removeCalls EXCEPT ![i] = IdleRemove]
  /\ UNCHANGED <<collection, cLoading, listCalls, filter, sortBy, nextId>>
  /\ UNCHANGED <<sessionVars, modalVars, searchVars, appVars, detailVars>>

\* removeFromCollection: the DELETE succeeded: fetchCollection(), onRefresh()
RemoveOk(i) ==
  /\ removeCalls[i].st = "sent"
  /\ AuthUser(removeCalls[i].auth) # Null
  /\ DeleteItem(AuthUser(removeCalls[i].auth), removeCalls[i].id)
  /\ removeCalls' = [removeCalls EXCEPT ![i] = IdleRemove]
  /\ IF removeCalls[i].live
     THEN /\ FreeList # {}
          /\ cLoading' = TRUE
          /\ listCalls' = IssueList(header)
     ELSE UNCHANGED <<cLoading, listCalls>>
  /\ UNCHANGED <<collection, filter, sortBy, nextId>>
  /\ UNCHANGED <<sessionVars, modalVars, searchVars, appVars, detailVars>>

\* removeFromCollection: the DELETE failed (catch logs)
RemoveFail(i) ==
  /\ removeCalls[i].st = "sent"
  /\ removeCalls' = [removeCalls EXCEPT ![i] = IdleRemove]
  /\ UNCHANGED <<collection, cLoading, listCalls, filter, sortBy>>
  /\ UNCHANGED <<sessionVars, modalVars, searchVars, appVars, detailVars, serverVars>>

\* the filter box and the sort selector are rendered with the list, that is
\* with a user, after loading, and when the held list is not empty
ControlsRendered ==
  CollectionMounted /\ user # NoUser /\ ~cLoading /\ collection # <<>>

\* onChange of the filter box
SetFilter(f) ==
  /\ ControlsRendered
  /\ filter' = f
  /\ UNCHANGED <<collection, cLoading, listCalls, removeCalls, sortBy>>
  /\ UNCHANGED <<sessionVars, modalVars, searchVars, appVars, detailVars, serverVars>>

\* onChange of the sort selector
SetSortBy(k) ==
  /\ ControlsRendered
  /\ sortBy' = k
  /\ UNCHANGED <<collection, cLoading, listCalls, removeCalls, filter>>
  /\ UNCHANGED <<sessionVars, modalVars, searchVars, appVars, detailVars, serverVars>>

\* the game data the authority embeds in an item of a list answer
Rating(g) == 7
Year(g) == IF g = 1 THEN 1995 ELSE 2017
\* date_added is set when the record is made; ids grow in the same order
DateAdded(it) == it.id

UpperCase == "ABCDEFGHIJKLMNOPQRSTUVWXYZ"
LowerCase == "abcdefghijklmnopqrstuvwxyz"
LetterCount == 26

\* the lower-case letter of each capital
CaseTable ==
  [c \in {SubSeq(UpperCase, k, k) : k \in 1..LetterCount} |->
     LET k == CHOOSE n \in 1..LetterCount : SubSeq(UpperCase, n, n) = c
     IN SubSeq(LowerCase, k, k)]

LowerChar(c) == IF c \in DOMAIN CaseTable THEN CaseTable[c] ELSE c

\* the mutant of ToLower: the text as it is
SameCase(s) == s

\* String.prototype.toLowerCase
RECURSIVE ToLower(_)
ToLower(s) ==
  IF Len(s) = 0 THEN ""
  ELSE LowerChar(SubSeq(s, 1, 1)) \o ToLower(SubSeq(s, 2, Len(s)))

\* String.prototype.includes
Includes(s, f) ==
  \E i \in 1..(Len(s) - Len(f) + 1) : SubSeq(s, i, i + Len(f) - 1) = f

\* the predicate of .filter: the name or some tag includes the filter
ItemMatches(item, f) ==
  \/ Includes(ToLower(Detail(item.bgg_id).name), ToLower(f))
  \/ \E k \in 1..Len(item.custom_tags) : Includes(ToLower(item.custom_tags[k]), ToLower(f))

\* the place of a character in the collation order: the space before the
\* letters, the letters without regard to case
RankTable ==
  [c \in {SubSeq(LowerCase, k, k) : k \in 1..LetterCount} |->
     CHOOSE n \in 1..LetterCount : SubSeq(LowerCase, n, n) = c]

CharRank(c) == IF LowerChar(c) \in DOMAIN RankTable THEN RankTable[LowerChar(c)] ELSE 0

\* String.prototype.localeCompare: negative, zero or positive
RECURSIVE LocaleCompare(_, _)
LocaleCompare(a, b) ==
  IF Len(a) = 0 /\ Len(b) = 0 THEN 0
  ELSE IF Len(a) = 0 THEN 0 - 1
  ELSE IF Len(b) = 0 THEN 1
  ELSE IF CharRank(SubSeq(a, 1, 1)) # CharRank(SubSeq(b, 1, 1))
       THEN CharRank(SubSeq(a, 1, 1)) - CharRank(SubSeq(b, 1, 1))
  ELSE LocaleCompare(SubSeq(a, 2, Len(a)), SubSeq(b, 2, Len(b)))

\* the comparator of .sort
Compare(a, b, k) ==
  CASE k = "name" -> LocaleCompare(Detail(a.bgg_id).name, Detail(b.bgg_id).name)
    [] k = "rating" -> Rating(b.bgg_id) - Rating(a.bgg_id)
    [] k = "year" -> Year(b.bgg_id) - Year(a.bgg_id)
    [] OTHER -> DateAdded(b) - DateAdded(a)

\* Array.prototype.sort is stable: an item goes before the first one it
\* compares below, and after the ones it equals
RECURSIVE InsertSorted(_, _, _)
InsertSorted(x, seq, k) ==
  IF seq = <<>> THEN <<x>>
  ELSE IF Compare(x, Head(seq), k) < 0 THEN <<x>> \o seq
  ELSE <<Head(seq)>> \o InsertSorted(x, Tail(seq), k)

RECURSIVE SortedBy(_, _)
SortedBy(seq, k) ==
  IF seq = <<>> THEN <<>>
  ELSE InsertSorted(seq[Len(seq)], SortedBy(SubSeq(seq, 1, Len(seq) - 1), k), k)

FilteredAndSortedCollection(coll, f, k) ==
  SortedBy(SelectSeq(coll, LAMBDA item : ItemMatches(item, f)), k)

\* what Collection renders: the sign-in prompt without a user, the spinner
\* while loading, otherwise the list it holds, filtered and sorted
Presented(tab, u, busy, coll, f, k) ==
  IF tab = "search" \/ u = NoUser \/ busy THEN <<>>
  ELSE FilteredAndSortedCollection(coll, f, k)

PresentedItems == Presented(activeTab, user, cLoading, collection, filter, sortBy)
\* what it renders after the step
PresentedNext == Presented(activeTab', user', cLoading', collection', filter', sortBy')

\* ------------------------------------------------------------- specifications
\* The state after the components are constructed: the useState initial
\* values, whatever token an earlier run left in localStorage, and an
\* authority that holds no records yet.
InitState(records, tr) ==
  /\ stored \in {Null} \cup Tokens
  /\ header = NoHeader
  /\ token = Null
  /\ user = NoUser
  /\ loading = TRUE
  /\ initPc = "start"
  /\ initAuth = NoHeader
  /\ authCalls = [i \in 1..MaxAuthCalls |-> IdleCall]
  /\ authModal = [isOpen |-> FALSE, mode |-> "login"]
  /\ mLoading = FALSE
  /\ mError = ""
  /\ query = ""
  /\ searchResults = <<>>
  /\ searchLoading = FALSE
  /\ searchTimeout = NoTimer
  /\ timers = {}
  /\ searchReqs = [i \in 1..MaxSearchReqs |-> IdleSearch]
  /\ activeTab = "search"
  /\ selectedGame = NoGame
  /\ dLoading = TRUE
  /\ gameDetails = NoDetails
  /\ detailReqs = {}
  /\ adding = FALSE
  /\ addCalls = [i \in 1..MaxAddCalls |-> IdleAdd]
  /\ alertMsg = ""
  /\ addError = ""
  /\ collection = <<>>
  /\ cLoading = TRUE
  /\ listCalls = [i \in 1..MaxListCalls |-> IdleList]
  /\ removeCalls = [i \in 1..MaxRemoveCalls |-> IdleRemove]
  /\ filter = ""
  /\ sortBy = "date_added"
  /\ items = records
  /\ nextId = Cardinality(records) + 1
  /\ trip = tr

InitWith(records) == InitState(records, "off")

\* The page is loaded again: every component is constructed anew and the
\* axios defaults are those of a fresh module; timers and requests of the old
\* page are gone with it.  localStorage and the authority's records stay.
Reload ==
  /\ header' = NoHeader
  /\ token' = Null
  /\ user' = NoUser
  /\ loading' = TRUE
  /\ initPc' = "start"
  /\ initAuth' = NoHeader
  /\ authCalls' = [i \in 1..MaxAuthCalls |-> IdleCall]
  /\ authModal' = [isOpen |-> FALSE, mode |-> "login"]
  /\ mLoading' = FALSE
  /\ mError' = ""
  /\ query' = ""
  /\ searchResults' = <<>>
  /\ searchLoading' = FALSE
  /\ searchTimeout' = NoTimer
  /\ timers' = {}
  /\ searchReqs' = [i \in 1..MaxSearchReqs |-> IdleSearch]
  /\ activeTab' = "search"
  /\ selectedGame' = NoGame
  /\ dLoading' = TRUE
  /\ gameDetails' = NoDetails
  /\ detailReqs' = {}
  /\ adding' = FALSE
  /\ addCalls' = [i \in 1..MaxAddCalls |-> IdleAdd]
  /\ alertMsg' = ""
  /\ addError' = ""
  /\ collection' = <<>>
  /\ cLoading' = TRUE
  /\ listCalls' = [i \in 1..MaxListCalls |-> IdleList]
  /\ removeCalls' = [i \in 1..MaxRemoveCalls |-> IdleRemove]
  /\ filter' = ""
  /\ sortBy' = "date_added"
  /\ trip' = Trip("restart")
  /\ UNCHANGED <<stored, serverVars>>

Init == InitWith({})

\* the same with records an earlier run left at the authority
Stock == {[id |-> 1, owner |-> "A", bgg_id |-> 1, is_wishlist |-> FALSE, custom_tags |-> <<"Strategy">>],
          [id |-> 2, owner |-> "A", bgg_id |-> 2, is_wishlist |-> FALSE, custom_tags |-> <<"Family">>]}
InitStocked == InitWith(Stock)

Queries == {"", "c", "cat", "catan"}
Tabs == {"search", "collection", "wishlist"}
AddErrors == {"duplicate", "unauthorized", "transport"}

NextInit ==
  \/ InitializeAuth
  \/ InitProfileOk
  \/ InitProfileFail

\* what the page offers: the dialog, sign in, register, sign out
NextLogin ==
  \/ \E m \in {"login", "register"} : OpenAuthModal(m)
  \/ CloseAuthModal
  \/ SwitchAuthMode
  \/ \E u \in Users : HandleSubmit(u)
  \/ \E i \in 1..MaxAuthCalls : ExchangeOk(i)
  \/ \E i \in 1..MaxAuthCalls, d \in Details : ExchangeFail(i, d)
  \/ \E i \in 1..MaxAuthCalls : LoginProfileOk(i)
  \/ \E i \in 1..MaxAuthCalls, d \in Details : LoginProfileFail(i, d)
  \/ Logout

NextAuth ==
  \/ NextLogin
  \/ RefreshProfile
  \/ \E i \in 1..MaxAuthCalls : RefreshOk(i)
  \/ \E i \in 1..MaxAuthCalls : RefreshFail(i)

NextSearchOf(Q) ==
  \/ \E v \in Q : HandleInputChange(v)
  \/ \E t \in timers : TimerFire(t)
  \/ \E i \in 1..MaxSearchReqs : SearchOk(i)
  \/ \E i \in 1..MaxSearchReqs : SearchFail(i)

NextDetails ==
  \/ \E g \in Games : HandleGameSelect(g)
  \/ CloseDetails
  \/ \E g \in Games : DetailOk(g)
  \/ \E g \in Games, e \in DetailErrors : DetailFailed(g, e)
  \/ \E wl \in BOOLEAN : HandleAddToCollection(wl)
  \/ \E i \in 1..MaxAddCalls : AddOk(i)
  \/ \E i \in 1..MaxAddCalls, e \in AddErrors : AddFail(i, e)

NextCollection ==
  \/ \E t \in Tabs : SetActiveTab(t)
  \/ \E i \in 1..MaxListCalls : ListServe(i)
  \/ \E i \in 1..MaxListCalls : ListDeliver(i)
  \/ \E i \in 1..MaxListCalls : ListFail(i)
  \/ \E id \in 1..MaxItemId : RemoveFromCollection(id)
  \/ \E i \in 1..MaxRemoveCalls : RemoveOk(i)
  \/ \E i \in 1..MaxRemoveCalls : RemoveFail(i)

\* the session store and the sign-in dialog
NextSession == NextInit \/ NextAuth
SpecSession == Init /\ [][NextSession]_vars

\* the same without refreshProfile, which no component of the page calls
SpecLogin == Init /\ [][NextInit \/ NextLogin]_vars

\* the page, signed in and out of and loaded again, with the history kept
InitRoundTrip == InitState({}, "none")
NextRoundTrip == NextInit \/ NextLogin \/ Reload
SpecRoundTrip == InitRoundTrip /\ [][NextRoundTrip]_vars

\* the search box
NextSearch == NextInit \/ NextSearchOf(Queries)
SpecSearch == Init /\ [][NextSearch]_vars

\* the search box on a page whose tabs are used: GameSearch unmounts and
\* mounts again
NextSearchTabs ==
  \/ NextInit
  \/ NextSearchOf({"c", "catan"})
  \/ \E t \in {"search", "collection"} : SetActiveTab(t)
SpecSearchTabs == Init /\ [][NextSearchTabs]_vars

\* the detail view and the two lists, entered through one search
NextShelf == NextInit \/ NextCollection
SpecShelf == InitStocked /\ [][NextShelf]_vars

\* the two lists of a user who can sign out
NextSignOut == NextShelf \/ Logout
SpecSignOut == InitStocked /\ [][NextSignOut]_vars

NextAdd == NextInit \/ NextSearchOf({"cat"}) \/ NextDetails
SpecAdd == Init /\ [][NextAdd]_vars

\* the detail view of the one game a search for "catan" finds
NextAddOne == NextInit \/ NextSearchOf({"catan"}) \/ NextDetails
SpecAddOne == Init /\ [][NextAddOne]_vars

\* adding through the detail view and looking at the two lists
NextAddList ==
  \/ NextAddOne
  \/ \E t \in Tabs : SetActiveTab(t)
  \/ \E i \in 1..MaxListCalls : ListServe(i)
  \/ \E i \in 1..MaxListCalls : ListDeliver(i)
  \/ \E i \in 1..MaxListCalls : ListFail(i)
SpecAddList == Init /\ [][NextAddList]_vars

\* the Collection tab of a user who searches, adds, lists and removes
NextLibrary ==
  \/ NextInit
  \/ NextSearchOf({"catan"})
  \/ \E g \in Games : HandleGameSelect(g)
  \/ CloseDetails
  \/ \E g \in Games : DetailOk(g)
  \/ \E g \in Games, e \in DetailErrors : DetailFailed(g, e)
  \/ HandleAddToCollection(FALSE)
  \/ \E i \in 1..MaxAddCalls : AddOk(i)
  \/ \E i \in 1..MaxAddCalls, e \in AddErrors : AddFail(i, e)
  \/ \E t \in {"search", "collection"} : SetActiveTab(t)
  \/ \E i \in 1..MaxListCalls : ListServe(i)
  \/ \E i \in 1..MaxListCalls : ListDeliver(i)
  \/ \E i \in 1..MaxListCalls : ListFail(i)
  \/ \E id \in 1..MaxItemId : RemoveFromCollection(id)
  \/ \E i \in 1..MaxRemoveCalls : RemoveOk(i)
  \/ \E i \in 1..MaxRemoveCalls : RemoveFail(i)
SpecLibrary == Init /\ [][NextLibrary]_vars

\* refreshProfile next to a mounted Collection, with no login and no logout
NextRefresh ==
  \/ NextInit
  \/ RefreshProfile
  \/ \E i \in 1..MaxAuthCalls : RefreshOk(i)
  \/ \E i \in 1..MaxAuthCalls : RefreshFail(i)
  \/ \E t \in Tabs : SetActiveTab(t)
  \/ \E i \in 1..MaxListCalls : ListServe(i)
  \/ \E i \in 1..MaxListCalls : ListDeliver(i)
  \/ \E i \in 1..MaxListCalls : ListFail(i)
SpecRefresh == InitStocked /\ [][NextRefresh]_vars

\* ------------------------------------------------------------- properties
NoSearchInFlight == \A i \in 1..MaxSearchReqs : searchReqs[i].st = "idle"
AuthInFlight == {i \in 1..MaxAuthCalls : authCalls[i].op # "idle"}
ListIssued == \E j \in 1..MaxListCalls : listCalls[j].st = "idle" /\ listCalls'[j].st = "sent"
ProfileFetchIssued == \E j \in 1..MaxAuthCalls : authCalls[j].op = "idle" /\ authCalls'[j].op = "refresh"
Ids(S) == {it.id : it \in S}

\* C1: once every search response has resolved (no timer pending, no request
\* in flight), the result set shown is the answer to the last query issued,
\* which is the query in the box: its catalogue result, or empty if it failed.
C1_LastIssuedQueryWins ==
  (timers = {} /\ NoSearchInFlight /\ Len(query) >= 2)
    => searchResults \in {Catalog(query), <<>>}

\* C2: a login or register that returns a failure has not changed the
\* session: none of its own steps altered the slot, the token, the header or
\* the profile.
C2_FailedLoginLeavesSession ==
  [][\A i \in 1..MaxAuthCalls : \A d \in Details :
       (ExchangeFail(i, d) \/ LoginProfileFail(i, d)) => ~authCalls[i].dirty]_vars

\* C3: once initializeAuth has started, the Authorization header, the token
\* state and the localStorage slot are all absent or all carry one token.
C3_HeaderTokenSlotAgree ==
  initPc # "start" =>
    IF token = Null
    THEN header = NoHeader /\ stored = Null
    ELSE header = Bearer(token) /\ stored = token

C3_Witness ==
  \E i, j \in 1..MaxAuthCalls :
    /\ authCalls[i].op = "login" /\ authCalls[i].stage = "profile"
    /\ authCalls[j].op = "refresh"
    /\ token = TokenOf("B") /\ user # NoUser /\ user[1].username = "A"

\* C4: a profile is never held without a token, and with no session
\* operation in flight a token is never held without a profile.
C4_ProfileIffToken ==
  /\ user # NoUser => token # Null
  /\ (initPc = "done" /\ AuthInFlight = {}) => (token # Null => user # NoUser)

\* C5: handleSubmit issues its login or register request only when no other
\* session operation is pending.
C5_SubmitWaitsForPending ==
  [][\A u \in Users : HandleSubmit(u) => (AuthInFlight = {} /\ initPc # "await")]_vars

C7_MutationRefreshes ==
  [][/\ \A i \in 1..MaxAddCalls : AddOk(i) => (ListIssued /\ ProfileFetchIssued)
     /\ \A i \in 1..MaxRemoveCalls :
          (RemoveOk(i) /\ removeCalls[i].live) => (ListIssued /\ ProfileFetchIssued)]_vars

\* C8: what the add handler shows for a duplicate differs from what it shows
\* for a transport or server failure.
C8_DuplicateDistinguishable ==
  /\ addError = "duplicate" => alertMsg = DuplicateAlert
  /\ addError \in {"transport", "unauthorized"} => alertMsg # DuplicateAlert

\* C9: every answered DELETE, also of a record already gone, runs the success
\* path (the record is not at the authority afterwards, nothing else changed
\* there, a re-list goes out); a list answer holds only records the
\* authority holds when it answers, and ids are never handed out again.
C9_RemoveTwice ==
  [][/\ \A i \in 1..MaxRemoveCalls : RemoveOk(i) =>
          /\ \A it \in items' :
               ~(it.id = removeCalls[i].id /\ it.owner = AuthUser(removeCalls[i].auth))
          /\ items' \subseteq items
          /\ removeCalls[i].live => ListIssued
     /\ \A j \in 1..MaxListCalls : ListServe(j) =>
          \A k \in 1..Len(listCalls'[j].data) : listCalls'[j].data[k] \in items
     /\ \A id \in Ids(items') \ Ids(items) : id >= nextId]_vars

\* both removes of record 1 were answered (record 2 is still there) and each
\* put a re-list in flight
C9_Witness ==
  /\ 1 \notin Ids(items) /\ 2 \in Ids(items)
  /\ \A i \in 1..MaxRemoveCalls : removeCalls[i].st = "idle"
  /\ Cardinality({j \in 1..MaxListCalls : listCalls[j].st # "idle"}) = 2

\* C10: a query shorter than two characters, when it fires, empties the
\* result set and issues no request.
C10_ShortQueryNoRequest ==
  [][\A t \in timers : (TimerFire(t) /\ t.live /\ Len(t.value) < 2) =>
       (searchResults' = <<>> /\ searchReqs' = searchReqs)]_vars

\* the short query has fired (its timer is held but no longer pending) after
\* a longer one had been sent
C10_Witness ==
  /\ query = "c" /\ searchTimeout # NoTimer /\ timers = {}
  /\ searchResults = <<>>
  /\ \E i \in 1..MaxSearchReqs : searchReqs[i].st = "sent"

\* the timers the mounted GameSearch has pending
LiveTimers == {t \in timers : t.live}
SearchIssued(q) ==
  \E j \in 1..MaxSearchReqs :
    /\ searchReqs[j].st = "idle"
    /\ searchReqs'[j] = [st |-> "sent", q |-> q, live |-> TRUE]
    /\ \A k \in 1..MaxSearchReqs : k # j => searchReqs'[k] = searchReqs[k]

C12_SearchFailureClears ==
  [][\A i \in 1..MaxSearchReqs : (SearchFail(i) /\ searchReqs[i].live) =>
       /\ searchResults' = <<>>
       /\ searchLoading' = FALSE
       /\ searchReqs'[i] = IdleSearch
       /\ UNCHANGED <<query, sessionVars, modalVars, appVars, detailVars, collVars, serverVars>>]_vars

\* every request has resolved, the query in the box has catalogue entries,
\* and nothing is shown: its request failed
C12_Witness ==
  /\ timers = {} /\ NoSearchInFlight /\ ~searchLoading
  /\ Catalog(query) # <<>>
  /\ searchResults = <<>>

\* C13: initializeAuth with an empty slot ends at once, with no token, no
\* header, no profile and no request; with a token in the slot it attaches
\* the header and the profile request it then issues carries it; when that
\* request succeeds the profile of the token's user is held next to the token,
\* the header and the slot; when it fails the slot, the header, the token and
\* the profile are all cleared.  Each way the loading gate opens.
C13_InitializeSettles ==
  [][/\ (InitializeAuth /\ stored = Null) =>
          /\ initPc' = "done" /\ ~loading'
          /\ Session' = [stored |-> Null, header |-> NoHeader, token |-> Null, user |-> NoUser]
          /\ initAuth' = NoHeader /\ authCalls' = authCalls
     /\ (InitializeAuth /\ stored # Null) =>
          /\ initPc' = "await" /\ loading'
          /\ header' = Bearer(stored) /\ initAuth' = Bearer(stored)
          /\ token' = stored /\ stored' = stored /\ user' = NoUser
     /\ InitProfileOk =>
          /\ initPc' = "done" /\ ~loading'
          /\ Session' = [stored |-> stored, header |-> Bearer(stored), token |-> stored,
                         user |-> <<ProfileOf(AuthUser(Bearer(stored)))>>]
     /\ InitProfileFail =>
          /\ initPc' = "done" /\ ~loading'
          /\ Session' = [stored |-> Null, header |-> NoHeader, token |-> Null, user |-> NoUser]]_vars

\* the profile request went out and failed: the page is open, signed out,
\* with an empty slot
C13_Witness ==
  /\ initPc = "done" /\ initAuth # NoHeader /\ ~loading
  /\ Session = [stored |-> Null, header |-> NoHeader, token |-> Null, user |-> NoUser]
  /\ authModal = [isOpen |-> FALSE, mode |-> "login"] /\ mError = ""
  /\ AuthInFlight = {}

C15_LogoutOneStep ==
  /\ []((~loading /\ user # NoUser) => ENABLED Logout)
  /\ [][Logout =>
          /\ Session' = [stored |-> Null, header |-> NoHeader, token |-> Null, user |-> NoUser]
          /\ authCalls' = authCalls
          /\ listCalls' = listCalls]_vars

\* signed out while a later login was waiting for its profile: the slot that
\* login had written is empty again
C15_Witness ==
  /\ Session = [stored |-> Null, header |-> NoHeader, token |-> Null, user |-> NoUser]
  /\ \E i \in 1..MaxAuthCalls : authCalls[i].op = "login" /\ authCalls[i].stage = "profile"
  /\ \A i \in 1..MaxAuthCalls : authCalls[i].op # "refresh"

\* C16: after a login or register that succeeded, Sign Out, a restart of the
\* page with no token written in between, and the initializeAuth of the new
\* page, there is no profile, no token, no header and an empty slot, and
\* initializeAuth has issued no profile request; the restart itself finds the
\* slot empty.
C16_RoundTrip ==
  /\ trip = "restart" => (stored = Null /\ initPc = "start")
  /\ trip = "initialize" =>
       /\ initPc = "done" /\ ~loading
       /\ Session = [stored |-> Null, header |-> NoHeader, token |-> Null, user |-> NoUser]
       /\ initAuth = NoHeader
       /\ \A i \in 1..MaxAuthCalls : authCalls[i].stage # "profile"

\* the round trip is complete and the new page is idle
C16_Witness ==
  /\ trip = "initialize"
  /\ initPc = "done" /\ user = NoUser
  /\ ~authModal.isOpen

\* C17: a step that ends with no profile held issues no list request, and
\* while no profile is held Collection presents nothing.
C17_AnonymousListNoRequest ==
  /\ [](user = NoUser => PresentedItems = <<>>)
  /\ [][user' = NoUser => ~ListIssued]_vars

\* C18: handleAddToCollection run while no profile is held sends no POST,
\* does not run the success path (onAddToCollection, onClose: the detail view
\* stays open on the same game) and changes nothing but the alert it shows.
C18_AnonymousAddNoRequest ==
  [][\A wl \in BOOLEAN : (HandleAddToCollection(wl) /\ user = NoUser) =>
       /\ addCalls' = addCalls
       /\ ~adding'
       /\ selectedGame' = selectedGame /\ selectedGame' # NoGame
       /\ alertMsg' = SignInAlert
       /\ \A i \in 1..MaxAddCalls : ~AddOk(i)
       /\ UNCHANGED <<sessionVars, collVars, serverVars>>]_vars

\* signed out, the detail view open and loaded, the sign-in alert shown and
\* nothing sent
C18_Witness ==
  /\ user = NoUser /\ initPc = "done"
  /\ selectedGame # NoGame /\ gameDetails # NoDetails
  /\ alertMsg = SignInAlert
  /\ \A i \in 1..MaxAddCalls : addCalls[i].st = "idle"
  /\ items = {}

\* the records among S of user u for game g on list wl
HeldIn(S, u, g, wl) == {it \in S : it.owner = u /\ it.bgg_id = g /\ it.is_wishlist = wl}
Occurrences(seq, it) == Cardinality({k \in 1..Len(seq) : seq[k] = it})

\* C19: an accepted add leaves exactly one record of its game on its list; an
\* add of a game already on that list is never accepted, and its rejection
\* changes no record and leaves the detail view open; every list answer holds
\* each record of the asked list exactly once, so at most one per game, and
\* that is what Collection then holds and presents.
C19_AddThenListOnce ==
  /\ [](/\ \A u \in Users, g \in Games, wl \in BOOLEAN : Cardinality(HeldIn(items, u, g, wl)) <= 1
        /\ \A k, m \in 1..Len(PresentedItems) :
             PresentedItems[k].bgg_id = PresentedItems[m].bgg_id => k = m)
  /\ [][/\ \A i \in 1..MaxAddCalls :
             LET c == addCalls[i] IN
             /\ AddOk(i) =>
                  /\ HeldIn(items, AuthUser(c.auth), c.bgg_id, c.wl) = {}
                  /\ Cardinality(HeldIn(items', AuthUser(c.auth), c.bgg_id, c.wl)) = 1
                  /\ items \subseteq items'
             /\ AddFail(i, "duplicate") =>
                  /\ items' = items
                  /\ selectedGame' = selectedGame
                  /\ Cardinality(HeldIn(items', AuthUser(c.auth), c.bgg_id, c.wl)) = 1
        /\ \A j \in 1..MaxListCalls :
             /\ ListServe(j) =>
                  \A it \in items :
                    Occurrences(listCalls'[j].data, it) =
                      IF it.owner = AuthUser(listCalls[j].auth) /\ it.is_wishlist = listCalls[j].wl
                      THEN 1 ELSE 0
             /\ ListDeliver(j) =>
                  /\ collection' = listCalls[j].data
                  /\ Len(PresentedNext) = Len(listCalls[j].data)
                  /\ \A it \in items :
                       Occurrences(PresentedNext, it) = Occurrences(listCalls[j].data, it)]_vars

\* game 1 was added, a second add of it was rejected as a duplicate, and the
\* Collection tab lists it once
C19_Witness ==
  /\ activeTab = "collection" /\ ~cLoading
  /\ addError = "duplicate"
  /\ Len(PresentedItems) = 1 /\ PresentedItems[1].bgg_id = 1
  /\ Cardinality(items) = 1

CollectionRequestsOut ==
  \/ \E i \in 1..MaxListCalls : listCalls[i].st # "idle"
  \/ \E i \in 1..MaxAddCalls : addCalls[i].st # "idle"
  \/ \E i \in 1..MaxRemoveCalls : removeCalls[i].st # "idle"

\* C20: the loading gate is closed exactly until initializeAuth has finished;
\* until then no list, add or remove request is out and none is issued, the
\* page is on its first tab with no detail view; initializeAuth starts once,
\* sends at most one profile request, and never starts again.
C20_NothingBeforeInitialized ==
  /\ [](/\ loading <=> initPc # "done"
        /\ initPc # "done" =>
             (~CollectionRequestsOut /\ activeTab = "search" /\ selectedGame = NoGame))
  /\ [][/\ initPc # "done" =>
             (listCalls' = listCalls /\ addCalls' = addCalls /\ removeCalls' = removeCalls)
        /\ InitializeAuth => (initPc = "start" /\ initPc' # "start")
        /\ initPc # "start" => initPc' # "start"
        /\ initPc = "done" => initPc' = "done"]_vars

\* initializeAuth has asked for the profile once and finished signed in, and
\* only then a list request and a remove request went out
C20_Witness ==
  /\ initPc = "done" /\ initAuth # NoHeader /\ user # NoUser
  /\ \E i \in 1..MaxListCalls : listCalls[i].st # "idle"
  /\ \E i \in 1..MaxRemoveCalls : removeCalls[i].st # "idle"

\* a step of initializeAuth, login, register, logout or refreshProfile
SessionStep ==
  \/ InitializeAuth \/ InitProfileOk \/ InitProfileFail
  \/ \E i \in 1..MaxAuthCalls : ExchangeOk(i) \/ LoginProfileOk(i) \/ RefreshOk(i) \/ RefreshFail(i)
  \/ Logout

\* C21: a step that changes the slot, the token, the header or the profile is
\* a step of initializeAuth, login, register, logout or refreshProfile: no step
\* of search, detail fetch, list, add or remove, answered or failed, does; and
\* a profile that changes becomes null or what the authority answers to a
\* profile request.
C21_SessionFrame ==
  [][/\ Session' # Session => SessionStep
     /\ user' # user => user' \in {NoUser} \cup {<<ProfileOf(u)>> : u \in Users}]_vars

\* signed in as A from the slot; a search, an add and a list later the
\* session is as initializeAuth left it, the profile still counting no record
C21_Witness ==
  /\ Session = [stored |-> TokenOf("A"), header |-> Bearer(TokenOf("A")), token |-> TokenOf("A"),
                user |-> <<[username |-> "A", collection_count |-> 0, wishlist_count |-> 0]>>]
  /\ activeTab = "collection" /\ Len(collection) = 1
  /\ items # {}

\* C22: what fetchGameDetails leaves behind when the entry was not found
\* differs from what it leaves behind when the transport failed; and neither
\* an answer nor a failure makes it send another request.
C22_DetailFailureTyped ==
  [][\A g \in Games :
       /\ ~(DetailFailed(g, "notfound") /\ DetailFailed(g, "transport"))
       /\ (DetailOk(g) \/ DetailFail(g)) => detailReqs' = detailReqs \ {g}]_vars

\* C23: a login or register that fails, at its exchange or at its profile
\* fetch, shows exactly the reason the authority gave when it gave one, and
\* its own fallback message only when the failure carried none.
C23_ReasonVerbatim ==
  [][\A i \in 1..MaxAuthCalls : \A d \in Details :
       (ExchangeFail(i, d) \/ LoginProfileFail(i, d)) =>
         /\ d \notin {Null, ""} => mError' = d
         /\ d \in {Null, ""} => mError' = FallbackOf(authCalls[i].op)
         /\ ~mLoading' /\ authCalls'[i] = IdleCall]_vars

\* a register was refused and the dialog shows the authority's reason
C23_Witness ==
  /\ authModal = [isOpen |-> TRUE, mode |-> "register"]
  /\ mError = "Invalid username or password" /\ ~mLoading
  /\ AuthInFlight = {}

\* ------------------------------------------------------------- C24
\* the texts typed into the filter box and the options of the sort selector
Filters == {"", "cat", "CATAN", "fam", "x"}
SortKeys == {"date_added", "name", "rating", "year"}

NextFilter ==
  \/ NextInit
  \/ SetActiveTab("collection")
  \/ \E i \in 1..MaxListCalls : ListServe(i)
  \/ \E i \in 1..MaxListCalls : ListDeliver(i)
  \/ \E i \in 1..MaxListCalls : ListFail(i)
  \/ \E id \in 1..MaxItemId : RemoveFromCollection(id)
  \/ \E i \in 1..MaxRemoveCalls : RemoveOk(i)
  \/ \E i \in 1..MaxRemoveCalls : RemoveFail(i)
  \/ \E f \in Filters : SetFilter(f)
  \/ \E k \in SortKeys : SetSortBy(k)
SpecFilter == InitStocked /\ [][NextFilter]_vars

RequestVars == <<authCalls, searchReqs, timers, detailReqs, addCalls, listCalls, removeCalls>>

\* the same letter, in either case
SameLetter(c, d) ==
  \/ c = d
  \/ c \in DOMAIN CaseTable /\ CaseTable[c] = d
  \/ d \in DOMAIN CaseTable /\ CaseTable[d] = c

\* text contains f somewhere, letter by letter without regard to case
ContainsCI(text, f) ==
  \E i \in 1..(Len(text) - Len(f) + 1) :
    \A k \in 1..Len(f) : SameLetter(SubSeq(text, i + k - 1, i + k - 1), SubSeq(f, k, k))

NameOrTagContains(it, f) ==
  \/ ContainsCI(Detail(it.bgg_id).name, f)
  \/ \E k \in 1..Len(it.custom_tags) : ContainsCI(it.custom_tags[k], f)

\* C24: a change of the filter text or of the sort key sends no request and
\* changes neither the held list nor anything else but itself; the list shown
\* holds exactly the held items whose name or some tag contains the filter
\* without regard to case, each once, all of them for the empty filter, in
\* the order of the chosen key.
C24_FilterSortPure ==
  /\ [][((\E f \in Filters : SetFilter(f)) \/ (\E k \in SortKeys : SetSortBy(k))) =>
          UNCHANGED <<RequestVars, collection, cLoading, sessionVars, serverVars>>]_vars
  /\ [](ControlsRendered =>
          LET shown == PresentedItems IN
          /\ \A k \in 1..Len(collection) :
               Occurrences(shown, collection[k]) =
                 IF NameOrTagContains(collection[k], filter) THEN 1 ELSE 0
          /\ \A k \in 1..Len(shown) : Occurrences(collection, shown[k]) = 1
          /\ filter = "" => Len(shown) = Len(collection)
          /\ \A k \in 1..(Len(shown) - 1) : Compare(shown[k], shown[k + 1], sortBy) <= 0)

\* two items are held, the filter is in capitals and keeps only Catan
C24_Witness ==
  /\ ControlsRendered
  /\ Len(collection) = 2
  /\ filter = "CATAN" /\ sortBy = "name"
  /\ Len(PresentedItems) = 1 /\ PresentedItems[1].bgg_id = 1

\* ------------------------------------------------------------- C25
SessionAnonymous ==
  stored = Null /\ token = Null /\ header = NoHeader /\ user = NoUser
SessionAuthenticated ==
  token # Null /\ stored = token /\ header = Bearer(token) /\ user # NoUser

\* C25: every failed request is absorbed: its call ends, its busy flag is
\* cleared, a failure outside the session store leaves the session as it was,
\* and once no session call is left the session is Authenticated or, at
\* worst, Anonymous.
C25_NoFailureFatal ==
  [][/\ \A i \in 1..MaxAuthCalls :
          ((\E d \in Details : ExchangeFail(i, d) \/ LoginProfileFail(i, d)) \/ RefreshFail(i)) =>
            /\ authCalls'[i] = IdleCall
            /\ \A j \in 1..MaxAuthCalls : j # i => authCalls'[j] = authCalls[j]
            /\ (initPc = "done" /\ \A j \in 1..MaxAuthCalls : authCalls'[j] = IdleCall) =>
                 (stored' = Null /\ token' = Null /\ header' = NoHeader /\ user' = NoUser)
                 \/ (token' # Null /\ stored' = token' /\ header' = Bearer(token') /\ user' # NoUser)
     /\ InitProfileFail =>
          ~loading' /\ stored' = Null /\ token' = Null /\ header' = NoHeader /\ user' = NoUser
     /\ \A i \in 1..MaxSearchReqs : SearchFail(i) =>
          searchReqs'[i] = IdleSearch /\ Session' = Session
     /\ \A g \in Games : DetailFail(g) =>
          g \notin detailReqs' /\ ~dLoading' /\ Session' = Session
     /\ \A i \in 1..MaxAddCalls : (\E e \in AddErrors : AddFail(i, e)) =>
          addCalls'[i] = IdleAdd /\ Session' = Session
     /\ \A i \in 1..MaxListCalls : ListFail(i) =>
          listCalls'[i] = IdleList /\ Session' = Session
     /\ \A i \in 1..MaxRemoveCalls : RemoveFail(i) =>
          removeCalls'[i] = IdleRemove /\ Session' = Session]_vars

\* ------------------------------------------------------------- C26
\* one mounted Collection whose list requests are all answered: removes,
\* their acknowledgements and the re-lists they start, in any order
NextRemove ==
  \/ NextInit
  \/ SetActiveTab("collection")
  \/ \E i \in 1..MaxListCalls : ListServe(i)
  \/ \E i \in 1..MaxListCalls : ListDeliver(i)
  \/ \E id \in 1..MaxItemId : RemoveFromCollection(id)
  \/ \E i \in 1..MaxRemoveCalls : RemoveOk(i)
  \/ \E i \in 1..MaxRemoveCalls : RemoveFail(i)
SpecRemove == InitStocked /\ [][NextRemove]_vars

\* C26: once every remove is acknowledged or refused and every re-list has
\* been delivered, the held list has no record that the authority no longer
\* holds, whatever order the list answers arrived in.
C26_RemovedNeverReturn ==
  [](/\ CollectionMounted
     /\ \A i \in 1..MaxListCalls : listCalls[i].st = "idle"
     /\ \A i \in 1..MaxRemoveCalls : removeCalls[i].st = "idle"
     => \A k \in 1..Len(collection) : collection[k] \in items)

\* ------------------------------------------------------------- C27
\* The session store with its scheduling: the mount effect runs, and the
\* profile request of initializeAuth is answered or fails.
SpecSessionFair ==
  /\ Init
  /\ [][NextSession]_vars
  /\ WF_vars(InitializeAuth)
  /\ WF_vars(InitProfileOk \/ InitProfileFail)

\* C27: the loading flag of the session store becomes false on every path of
\* initializeAuth, and once it is false no later step, of login, register,
\* logout or refreshProfile, sets it again.
C27_InitializeSettles ==
  /\ <>(~loading)
  /\ [][~loading => ~loading' /\ initPc' = "done"]_vars

\* initializeAuth sent its profile request and ended, and a later sign-in
\* holds another token
C27_Witness ==
  /\ ~loading /\ initPc = "done"
  /\ initAuth # NoHeader
  /\ token # Null /\ Bearer(token) # initAuth
  /\ user # NoUser

\* ------------------------------------------------------------- C28
\* the sign-in dialog and the session store, with the history of a logout
\* that overtakes a call
InitLogoutRace == InitState({}, "watch")
SpecLogoutRace == InitLogoutRace /\ [][NextInit \/ NextLogin]_vars

\* C28: from a logout invoked while a login or register call is out, and
\* until the next login or register is invoked, the session is Anonymous:
\* no token, an empty slot, no header and no profile, also after the
\* overtaken call has completed.
C28_LogoutWins ==
  trip = "raced" => SessionAnonymous

\* ------------------------------------------------------------- C29
\* C29: a profile held together with a token is the profile of the account
\* that token was issued to, also when sign-in calls for different accounts
\* overlap and their answers arrive in any order.
C29_ProfileOfHeldToken ==
  (initPc = "done" /\ token # Null /\ user # NoUser) =>
     user[1].username = AuthUser(Bearer(token))

\* ------------------------------------------------------------- C30
\* the Collection tab stays open while the account changes: A, signed in
\* from the stored token, logs out and B signs in through the dialog
NextSwitchUser ==
  \/ NextInit
  \/ SetActiveTab("collection")
  \/ \E i \in 1..MaxListCalls : ListServe(i)
  \/ \E i \in 1..MaxListCalls : ListDeliver(i)
  \/ \E i \in 1..MaxListCalls : ListFail(i)
  \/ Logout
  \/ OpenAuthModal("login")
  \/ HandleSubmit("B")
  \/ \E i \in 1..MaxAuthCalls : ExchangeOk(i)
  \/ \E i \in 1..MaxAuthCalls, d \in Details : ExchangeFail(i, d)
  \/ \E i \in 1..MaxAuthCalls : LoginProfileOk(i)
  \/ \E i \in 1..MaxAuthCalls, d \in Details : LoginProfileFail(i, d)
SpecSwitchUser == InitStocked /\ [][NextSwitchUser]_vars

\* C30: every item the Collection tab shows belongs to the account that is
\* signed in, also after a change of account with the tab open, when the
\* list request of the new account fails or a list answer of the old account
\* arrives late.
C30_OnlyOwnItemsShown ==
  \A k \in 1..Len(PresentedItems) : PresentedItems[k].owner = user[1].username

\* ------------------------------------------------------------- C31
\* C31: when the text in the box is shorter than two characters and its
\* timer has fired, so that searchGames has cleared the results and no later
\* query has been fired, the result set is empty, also after answers to
\* earlier requests have arrived.
C31_ShortQueryStaysEmpty ==
  (activeTab = "search" /\ Len(query) < 2 /\ LiveTimers = {}) => searchResults = <<>>

\* ------------------------------------------------------------- C32
SearchOutstanding == \E i \in 1..MaxSearchReqs : searchReqs[i].st # "idle" /\ searchReqs[i].live
ListOutstanding == \E i \in 1..MaxListCalls : listCalls[i].st # "idle"

\* C32: the loading flag of the search box is true exactly while a search
\* request of the box is out, and the loading flag of the Collection tab is
\* true exactly while a list request of the tab is out.
C32_LoadingIffOutstanding ==
  /\ (activeTab = "search" /\ ~loading) => (searchLoading <=> SearchOutstanding)
  /\ (CollectionMounted /\ ~loading) => (cLoading <=> ListOutstanding)

\* ------------------------------------------------------------- C33
\* C33: a failed list request leaves the held list as it was, ends the
\* loading flag and frees its call; a failed remove request starts no list
\* request and changes neither the held list, the loading flag nor the
\* records of the authority.
C33_FailuresKeepCollection ==
  [][/\ \A i \in 1..MaxListCalls : ListFail(i) =>
          /\ collection' = collection
          /\ ~cLoading'
          /\ listCalls'[i] = IdleList
          /\ \A j \in 1..MaxListCalls : j # i => listCalls'[j] = listCalls[j]
     /\ \A i \in 1..MaxRemoveCalls : RemoveFail(i) =>
          /\ collection' = collection
          /\ listCalls' = listCalls
          /\ cLoading' = cLoading
          /\ items' = items
          /\ removeCalls'[i] = IdleRemove]_vars

\* a record was removed and the list request that followed failed: both
\* records are still held and shown
C33_Witness ==
  /\ activeTab = "collection" /\ ~cLoading
  /\ Len(collection) = 2 /\ Len(PresentedItems) = 2
  /\ Cardinality(items) = 1
  /\ ~ListOutstanding
  /\ \A i \in 1..MaxRemoveCalls : removeCalls[i].st = "idle"
====
